---- MODULE Spec2Model ----
(***************************************************************************)
(* A model of roundup/github.py: the GitHub webhook endpoint of the        *)
(* tracker.  GitHubHandler.dispatch authenticates one delivery             *)
(* (verify_request, validate_webhook_secret) and routes it (extract) to    *)
(* the PullRequest, IssueComment or Push handler, which reconcile the      *)
(* tracker store (the hyperdb behind self.db).                             *)
(*                                                                         *)
(* Python values are modelled as follows.                                  *)
(*   - None is the empty tuple << >>, a present value v is << v >>.        *)
(*   - A decimal string ("12") is the tuple of its digits << 1, 2 >>;      *)
(*     node ids, pull request numbers and issue ids in text are such       *)
(*     strings.                                                            *)
(*   - Free text (titles, bodies, commit messages) is a sequence of        *)
(*     tokens: maximal runs of letters, of digits, of blanks, a newline,   *)
(*     a '#', or one other punctuation character.                          *)
(*   - An exception is the field exc of a result: "" when none is raised.  *)
(***************************************************************************)
EXTENDS Integers, Sequences, FiniteSets, TLC

-----------------------------------------------------------------------------
(* Python values *)

None == << >>

Some(v) == << v >>

\* str(n) for a natural number n: its decimal digits.
RECURSIVE Str(_)
Str(n) == IF n < 10 THEN << n >> ELSE Str(n \div 10) \o << n % 10 >>

\* list(s) for a string of digits s: its characters, each a string.
ListOfStr(s) == [i \in 1..Len(s) |-> << s[i] >>]

\* The elements of a sequence.
Range(s) == {s[i] : i \in 1..Len(s)}

\* The duplicate-free enumerations of a finite set: the orders in which
\* iterating a set or a dict of Python 2 may visit it.
RECURSIVE Orders(_)
Orders(S) ==
  IF S = {} THEN {<< >>}
  ELSE UNION {{<< x >> \o o : o \in Orders(S \ {x})} : x \in S}

-----------------------------------------------------------------------------
(* Text *)

W(w) == [k |-> "word", w |-> w]

N(d) == [k |-> "num", d |-> d]

SP == [k |-> "space"]

NL == [k |-> "newline"]

HASH == [k |-> "hash"]

PUNCT == [k |-> "punct"]

\* \s
IsSpace(t) == t.k \in {"space", "newline"}

\* \w
IsWordChar(t) == t.k \in {"word", "num"}

\* re.I on the words the patterns name.
Lower(w) ==
  CASE w = "Closes" -> "closes"
    [] w = "Issue" -> "issue"
    [] w = "BPO" -> "bpo"
    [] OTHER -> w

\* \b before token i of text (between token i-1 and token i).
WordBoundary(text, i) ==
  LET before == i > 1 /\ i - 1 <= Len(text) /\ IsWordChar(text[i - 1])
      after == i >= 1 /\ i <= Len(text) /\ IsWordChar(text[i])
  IN before # after

\* \s* and \s+ : the index after the run of blanks that starts at i.
RECURSIVE SkipSpace(_, _)
SkipSpace(text, i) ==
  IF i <= Len(text) /\ IsSpace(text[i]) THEN SkipSpace(text, i + 1) ELSE i

\* str.splitlines()[0]: the text before the first newline.
RECURSIVE FirstLine(_)
FirstLine(text) ==
  IF text = << >> \/ Head(text) = NL THEN << >>
  ELSE << Head(text) >> \o FirstLine(Tail(text))

-----------------------------------------------------------------------------
(* dict *)

\* d.get(k): None when the key is absent.
Get(d, k) == IF k \in DOMAIN d THEN Some(d[k]) ELSE None

\* d.get(k, default)
GetD(d, k, default) == IF k \in DOMAIN d THEN d[k] ELSE default

\* The result of a call: exc is the exception it raised ("" when none),
\* val the value it returned.
Ok(v) == [exc |-> "", val |-> v]

Raise(e) == [exc |-> e]

-----------------------------------------------------------------------------
(* The patterns *)

\* ISSUE_GH_RE.findall(text) from token i on: the digits after each
\* 'bpo' and optional blanks.
RECURSIVE GHFindall(_, _)
GHFindall(text, i) ==
  IF i > Len(text) THEN << >>
  ELSE LET j == SkipSpace(text, i + 1)
       IN IF /\ text[i].k = "word"
             /\ Lower(text[i].w) = "bpo"
             /\ j <= Len(text)
             /\ text[j].k = "num"
          THEN << text[j].d >> \o GHFindall(text, j + 1)
          ELSE GHFindall(text, i + 1)

ISSUE_GH_RE_findall(text) == GHFindall(text, 1)

\* The words the verb group of VERBS names; its last alternative is empty.
VerbWords == {"close", "closes", "closed", "closing"}

NoMatch == [ok |-> FALSE]

\* (?:#|\bissue|\bbug)\s*(?P<issue_id>\d+) at token p, after a verb group
\* that matched verb (None when the group did not take part).
MarkerAt(text, p, verb) ==
  IF p > Len(text) THEN NoMatch
  ELSE LET marker == \/ text[p].k = "hash"
                     \/ /\ text[p].k = "word"
                        /\ Lower(text[p].w) \in {"issue", "bug"}
                        /\ WordBoundary(text, p)
           q == SkipSpace(text, p + 1)
       IN IF marker /\ q <= Len(text) /\ text[q].k = "num"
          THEN [ok |-> TRUE, verb |-> verb, issue_id |-> text[q].d, end |-> q + 1]
          ELSE NoMatch

\* ISSUE_BPO_RE matched at token i: the verb group with a verb word, then
\* with the empty verb, then without the group.
VerbMatchAt(text, i) ==
  LET named == IF /\ WordBoundary(text, i)
                  /\ text[i].k = "word"
                  /\ Lower(text[i].w) \in VerbWords
                  /\ i + 1 <= Len(text)
                  /\ IsSpace(text[i + 1])
               THEN MarkerAt(text, SkipSpace(text, i + 1), Some(text[i].w))
               ELSE NoMatch
      empty == IF WordBoundary(text, i) /\ IsSpace(text[i])
               THEN MarkerAt(text, SkipSpace(text, i), Some(""))
               ELSE NoMatch
  IN IF named.ok THEN named
     ELSE IF empty.ok THEN empty
     ELSE MarkerAt(text, i, None)

ISSUE_BPO_RE_matchAt(text, i) == VerbMatchAt(text, i)

\* ISSUE_BPO_RE.finditer(text) from token i on: the matches, left to right,
\* none overlapping another.
RECURSIVE BPOFinditer(_, _)
BPOFinditer(text, i) ==
  IF i > Len(text) THEN << >>
  ELSE LET m == ISSUE_BPO_RE_matchAt(text, i)
       IN IF m.ok THEN << m >> \o BPOFinditer(text, m.end)
          ELSE BPOFinditer(text, i + 1)

ISSUE_BPO_RE_finditer(text) == BPOFinditer(text, 1)

-----------------------------------------------------------------------------
(* The tracker store behind self.db.                                       *)
(*                                                                         *)
(* db is a record: issue, pull_request and msg map a node id to the node,  *)
(* user is the list of users (the user with id str(i) at index i),         *)
(* curuser is the name db.setCurrentUser last set, and ops is the list of  *)
(* the store calls issued during the delivery being processed.             *)

EmptyDict == << >>

\* One store call in db.ops.
Op(name, id) == [op |-> name, id |-> id]

Log(db, name, id) == [db EXCEPT !.ops = Append(@, Op(name, id))]

\* The store calls that change the store.
MutatingOps ==
  {"issue.create", "issue.set", "pull_request.create", "pull_request.set",
   "msg.create"}

\* The id the store gives the next node of a class.
NewId(table) == Str(Cardinality(DOMAIN table) + 1)

\* db.user.filter(None, {prop: value}): the ids of the matching users.
user_filter(db, prop, value) ==
  LET hit(i) == IF prop = "github" THEN db.user[i].github = Some(value)
                ELSE db.user[i].username = value
      RECURSIVE scan(_)
      scan(i) == IF i > Len(db.user) THEN << >>
                 ELSE (IF hit(i) THEN << Str(i) >> ELSE << >>) \o scan(i + 1)
  IN scan(1)

\* db.user.get(id, 'username')
user_get_username(db, id) ==
  LET i == CHOOSE k \in 1..Len(db.user) : Str(k) = id IN db.user[i].username

\* db.setCurrentUser(username)
setCurrentUser(db, username) ==
  [Log(db, "setCurrentUser", None) EXCEPT !.curuser = username]

\* db.getuid(): the current user.
getuid(db) == db.curuser

\* db.issue.filter(None, {'id': ids}): the issues among ids that exist.
issue_filter_id(db, ids) == Range(ids) \cap DOMAIN db.issue

\* db.pull_request.filter(None, {'number': prid}): the links of that number.
pull_request_filter_number(db, prid) ==
  {l \in DOMAIN db.pull_request : db.pull_request[l].number = prid}

\* db.issue.create(title=title): a bare issue; val is its id.
issue_create(db, title) ==
  LET id == NewId(db.issue)
      node == [title |-> title, pull_requests |-> << >>, messages |-> << >>,
               status |-> "open", resolution |-> "", stage |-> ""]
      db1 == Log(db, "issue.create", id)
  IN [db |-> [db1 EXCEPT !.issue = [x \in DOMAIN @ \cup {id} |->
                                     IF x = id THEN node ELSE @[x]]],
      val |-> id]

\* db.pull_request.create(number=, title=, status=); val is its id.
pull_request_create(db, number, title, status) ==
  LET id == NewId(db.pull_request)
      node == [number |-> number, title |-> title, status |-> status]
      db1 == Log(db, "pull_request.create", id)
  IN [db |-> [db1 EXCEPT !.pull_request = [x \in DOMAIN @ \cup {id} |->
                                            IF x = id THEN node ELSE @[x]]],
      val |-> id]

\* db.msg.create(content=, author=, date=); val is its id.
msg_create(db, content, author) ==
  LET id == NewId(db.msg)
      node == [content |-> content, author |-> author]
      db1 == Log(db, "msg.create", id)
  IN [db |-> [db1 EXCEPT !.msg = [x \in DOMAIN @ \cup {id} |->
                                   IF x = id THEN node ELSE @[x]]],
      val |-> id]

\* db.issue.set(id, prop=value)
issue_set(db, id, prop, value) ==
  LET db1 == Log(db, "issue.set", id)
  IN CASE prop = "pull_requests" ->
            [db1 EXCEPT !.issue[id].pull_requests = value]
       [] prop = "messages" -> [db1 EXCEPT !.issue[id].messages = value]
       [] prop = "status" -> [db1 EXCEPT !.issue[id].status = value]
       [] prop = "resolution" -> [db1 EXCEPT !.issue[id].resolution = value]
       [] prop = "stage" -> [db1 EXCEPT !.issue[id].stage = value]

\* db.pull_request.set(id, title=title, status=status)
pull_request_set(db, id, title, status) ==
  [Log(db, "pull_request.set", id) EXCEPT
     !.pull_request[id].title = title, !.pull_request[id].status = status]

\* db.commit()
db_commit(db) == Log(db, "commit", None)

\* db.status.lookup(name), db.resolution.lookup(name), db.stage.lookup(name):
\* the node of that name.
lookup(name) == name

-----------------------------------------------------------------------------
(* class Event.  A handler is named by its class: "PullRequest",           *)
(* "IssueComment" or "Push".  title, status and prid are None or Some(v).  *)

\* not title, for a title that is None or a text.
NotTitle(title) == title = None \/ title[1] = << >>

\* not status, for a status that is None or a string.
NotStatus(status) == status = None \/ status[1] = ""

\* list(set(l)): the distinct elements of l in the order ord gives them.
ListOfSet(l, ord) == SelectSeq(ord, LAMBDA x : x \in Range(l))

\* Event.get_github_username, as each class overrides it.
get_github_username(class, data) ==
  CASE class = "PullRequest" ->
         LET pull_request == Get(data, "pull_request")
         IN IF pull_request = None THEN Raise("Reject")
            ELSE Ok(GetD(GetD(pull_request[1], "user", EmptyDict), "login", ""))
    [] class = "IssueComment" ->
         LET issue == Get(data, "issue")
         IN IF issue = None THEN Raise("Reject")
            ELSE Ok(GetD(GetD(issue[1], "user", EmptyDict), "login", ""))
    [] class = "Push" ->
         \* the default of a missing 'pusher' is a list, which has no get
         IF "pusher" \notin DOMAIN data THEN Raise("AttributeError")
         ELSE Ok(GetD(data.pusher, "name", ""))

\* The end of Event.set_roundup_user: user_ids is what the filters found.
set_user(db, user_ids) ==
  IF user_ids = << >> THEN db
  ELSE setCurrentUser(Log(db, "user.get", user_ids[1]),
                      user_get_username(db, user_ids[1]))

\* Event.set_roundup_user without the fallback user.
set_roundup_user_no_fallback(db, github_username) ==
  set_user(Log(db, "user.filter", None),
           user_filter(db, "github", github_username))

\* Event.set_roundup_user
set_roundup_user(db, github_username) ==
  IF user_filter(db, "github", github_username) # << >>
  THEN set_user(Log(db, "user.filter", None),
                user_filter(db, "github", github_username))
  ELSE set_user(Log(Log(db, "user.filter", None), "user.filter", None),
                user_filter(db, "username", "python-dev"))

\* PullRequest.get_issue_ids and IssueComment.get_issue_ids
get_issue_ids(class, data, ord) ==
  CASE class = "PullRequest" ->
         LET pull_request == Get(data, "pull_request")
         IN IF pull_request = None THEN Raise("Reject")
            ELSE LET title == GetD(pull_request[1], "title", << >>)
                     body == GetD(pull_request[1], "body", << >>)
                 IN Ok(ListOfSet(ISSUE_GH_RE_findall(title)
                                   \o ISSUE_GH_RE_findall(body), ord))
    [] class = "IssueComment" ->
         LET issue == Get(data, "issue")
             comment == Get(data, "comment")
         IN IF issue = None THEN Raise("Reject")
            ELSE IF comment = None THEN Raise("Reject")
            ELSE LET title == GetD(issue[1], "title", << >>)
                     body == GetD(comment[1], "body", << >>)
                 IN Ok(ListOfSet(ISSUE_GH_RE_findall(title)
                                   \o ISSUE_GH_RE_findall(body), ord))

\* The prefix URL_RE looks for; a url is [base, number], the text before
\* its trailing digits and those digits.
URL_RE_prefix == "https://github.com/python/cpython/pull/"

\* URL_RE.search(url): the group 'number', or None.
URL_RE_search(url) ==
  IF url.base = URL_RE_prefix /\ url.number # << >> THEN Some(url.number)
  ELSE None

\* get_pr_details taking a comment without url for one whose url names no
\* pull request of the repository.
get_pr_details_no_url(class, data) ==
  CASE class = "PullRequest" ->
         LET pull_request == Get(data, "pull_request")
         IN IF pull_request = None \/ Get(pull_request[1], "number") = None
            THEN Raise("Reject")
            ELSE Ok([prid |-> Some(Str(pull_request[1].number)),
                     title |-> Some(GetD(pull_request[1], "title", << >>)),
                     status |-> Some(IF GetD(pull_request[1], "merged", FALSE)
                                     THEN "merged"
                                     ELSE GetD(pull_request[1], "state", ""))])
    [] class = "IssueComment" ->
         LET url == Get(GetD(GetD(data, "issue", EmptyDict), "pull_request",
                             EmptyDict), "html_url")
         IN IF Get(data, "issue") = None THEN Raise("Reject")
            ELSE Ok([prid |-> IF url = None THEN None
                              ELSE URL_RE_search(url[1]),
                     title |-> None, status |-> None])

\* PullRequest.get_pr_details and IssueComment.get_pr_details
get_pr_details(class, data) ==
  CASE class = "PullRequest" ->
         LET pull_request == Get(data, "pull_request")
         IN IF pull_request = None THEN Raise("Reject")
            ELSE LET number == Get(pull_request[1], "number")
                     title == GetD(pull_request[1], "title", << >>)
                     state == GetD(pull_request[1], "state", "")
                     status == IF GetD(pull_request[1], "merged", FALSE)
                               THEN "merged" ELSE state
                 IN IF number = None THEN Raise("Reject")
                    ELSE Ok([prid |-> Some(Str(number[1])),
                             title |-> Some(title), status |-> Some(status)])
    [] class = "IssueComment" ->
         LET issue == Get(data, "issue")
         IN IF issue = None THEN Raise("Reject")
            ELSE LET url == Get(GetD(issue[1], "pull_request", EmptyDict),
                                "html_url")
                 IN \* URL_RE.search(None) is a TypeError
                    IF url = None THEN Raise("TypeError")
                    ELSE LET number_match == URL_RE_search(url[1])
                         IN IF number_match = None
                            THEN Ok([prid |-> None, title |-> None,
                                     status |-> None])
                            ELSE Ok([prid |-> number_match, title |-> None,
                                     status |-> None])

\* The test of Event.handle_create taking no issue for linked.
already_linked_never(db, prs, prid) == FALSE

\* set(prs).intersection(self.db.pull_request.filter(None, {'number': prid}))
\* as a condition: prs holds a link of the number prid.
already_linked(db, prs, prid) ==
  Range(prs) \cap pull_request_filter_number(db, prid) # {}

\* prs.append(newpr); self.db.issue.set(issue_id, pull_requests=prs);
\* self.db.commit()
handle_create_link(issue_id, prs, newpr) ==
  db_commit(issue_set(newpr.db, issue_id, "pull_requests",
                      Append(prs, newpr.val)))

\* The body of the loop of Event.handle_create without its test for a link
\* the issue already has.
handle_create_issue_unverified(db, prid, title, status, issue_id) ==
  handle_create_link(
    issue_id, db.issue[issue_id].pull_requests,
    pull_request_create(
      Log(Log(db, "issue.get", issue_id), "pull_request.filter", None),
      prid,
      IF NotTitle(title) THEN Some(<< >>) ELSE title,
      IF NotStatus(status) THEN Some("") ELSE status))

\* The body of the loop of Event.handle_create for one issue.
handle_create_issue(db, prid, title, status, issue_id) ==
  IF Range(db.issue[issue_id].pull_requests)
       \cap pull_request_filter_number(db, prid) # {}
  THEN Log(Log(db, "issue.get", issue_id), "pull_request.filter", None)
  ELSE handle_create_link(
         issue_id, db.issue[issue_id].pull_requests,
         pull_request_create(
           Log(Log(db, "issue.get", issue_id), "pull_request.filter", None),
           prid,
           IF NotTitle(title) THEN Some(<< >>) ELSE title,
           IF NotStatus(status) THEN Some("") ELSE status))

RECURSIVE handle_create_loop(_, _, _, _, _)
handle_create_loop(db, prid, title, status, issue_ids) ==
  IF issue_ids = << >> THEN db
  ELSE handle_create_loop(
         handle_create_issue(db, prid, title, status, Head(issue_ids)),
         prid, title, status, Tail(issue_ids))

\* Event.handle_create linking the issues that exist when some do not.
handle_create_existing(db, prid, title, status, issue_ids) ==
  handle_create_loop(Log(db, "issue.filter", None), prid, title, status,
                     SelectSeq(issue_ids, LAMBDA x : x \in DOMAIN db.issue))

\* Event.handle_create
handle_create(db, prid, title, status, issue_ids) ==
  IF Cardinality(issue_filter_id(db, issue_ids)) # Len(issue_ids)
  THEN Log(db, "issue.filter", None)
  ELSE handle_create_loop(Log(db, "issue.filter", None), prid, title, status,
                          issue_ids)

\* The body of the loop over prs in Event.handle_update without its set.
handle_update_link_unset(db, prid, title, status, pr) ==
  Log(db, "pull_request.getnode", pr)

\* The body of the loop over prs in Event.handle_update setting every link
\* of the issue, whatever its number.
handle_update_link_any(db, prid, title, status, pr) ==
  db_commit(pull_request_set(Log(db, "pull_request.getnode", pr), pr,
                             title, status))

\* The body of the loop over prs in Event.handle_update.
handle_update_link(db, prid, title, status, pr) ==
  IF db.pull_request[pr].number = prid
  THEN db_commit(pull_request_set(Log(db, "pull_request.getnode", pr), pr,
                                  title, status))
  ELSE Log(db, "pull_request.getnode", pr)

\* The loop over prs in Event.handle_update: every link of the issue
\* whose number is prid gets the title and the status.
RECURSIVE handle_update_links(_, _, _, _, _)
handle_update_links(db, prid, title, status, prs) ==
  IF prs = << >> THEN db
  ELSE handle_update_links(
         handle_update_link(db, prid, title, status, Head(prs)),
         prid, title, status, Tail(prs))

\* The body of the loop of Event.handle_update for one issue.
handle_update_issue(db, prid, title, status, issue_id) ==
  IF Range(db.issue[issue_id].pull_requests)
       \cap pull_request_filter_number(db, prid) # {}
  THEN handle_update_links(
         Log(Log(db, "issue.get", issue_id), "pull_request.filter", None),
         prid, title, status, db.issue[issue_id].pull_requests)
  ELSE handle_create(
         Log(Log(db, "issue.get", issue_id), "pull_request.filter", None),
         prid, title, status, << issue_id >>)

RECURSIVE handle_update_loop(_, _, _, _, _)
handle_update_loop(db, prid, title, status, issue_ids) ==
  IF issue_ids = << >> THEN db
  ELSE handle_update_loop(
         handle_update_issue(db, prid, title, status, Head(issue_ids)),
         prid, title, status, Tail(issue_ids))

\* Event.handle_update
handle_update(db, prid, title, status, issue_ids) ==
  IF NotTitle(title) THEN db
  ELSE IF Cardinality(issue_filter_id(db, issue_ids)) # Len(issue_ids)
  THEN Log(db, "issue.filter", None)
  ELSE handle_update_loop(Log(db, "issue.filter", None), prid, title, status,
                          issue_ids)

\* PullRequest.handle_action and IssueComment.handle_action
handle_action(class, db, action, prid, title, status, issue_ids) ==
  CASE class = "PullRequest" ->
         IF action \in {"opened", "created"}
         THEN handle_create(db, prid, title, status, issue_ids)
         ELSE IF action \in {"edited", "closed"}
         THEN handle_update(db, prid, title, status, issue_ids)
         ELSE db
    [] class = "IssueComment" ->
         IF action \in {"created", "edited"}
         THEN handle_create(db, prid, title, status, issue_ids)
         ELSE db

\* os.environ.get('CREATE_ISSUE', False), as a condition.
create_issue(environ) ==
  "CREATE_ISSUE" \in DOMAIN environ /\ environ.CREATE_ISSUE # ""

\* issue_ids = list(self.db.issue.create(title=title))
created_issue(new) == [db |-> new.db, exc |-> "", val |-> ListOfStr(new.val)]

\* The branch "if not issue_ids" of Event.dispatch; val is the issue ids.
dispatch_create_issue(db, data, environ, issue_ids) ==
  IF issue_ids # << >> \/ ~create_issue(environ)
  THEN [db |-> db, exc |-> "", val |-> issue_ids]
  ELSE LET pull_request == Get(data, "pull_request")
       IN \* None has no get
          IF pull_request = None THEN [db |-> db, exc |-> "AttributeError"]
          ELSE created_issue(
                 issue_create(db, GetD(pull_request[1], "title", << >>)))

\* Event.dispatch from get_pr_details on: details is its result.
dispatch_details(class, db, action, issue_ids, details) ==
  IF details.exc # "" THEN [db |-> db, exc |-> details.exc]
  ELSE [db |-> handle_action(class, db, action, details.val.prid,
                             details.val.title, details.val.status, issue_ids),
        exc |-> ""]

\* Event.dispatch after "if not issue_ids": created is the result of that
\* branch.
dispatch_created(class, data, created) ==
  IF created.exc # "" THEN [db |-> created.db, exc |-> created.exc]
  ELSE dispatch_details(class, created.db, GetD(data, "action", ""),
                        created.val, get_pr_details(class, data))

\* Event.dispatch after set_roundup_user: found is the result of
\* get_issue_ids.
dispatch_as_user(class, db, data, environ, found) ==
  IF found.exc # "" THEN [db |-> db, exc |-> found.exc]
  ELSE dispatch_created(class, data,
                        dispatch_create_issue(db, data, environ, found.val))

\* Event.dispatch, for the classes PullRequest and IssueComment.
Event_dispatch(class, db, data, environ, ord) ==
  LET username == get_github_username(class, data)
  IN IF username.exc # "" THEN [db |-> db, exc |-> username.exc]
     ELSE dispatch_as_user(class, set_roundup_user(db, username.val), data,
                           environ, get_issue_ids(class, data, ord))

-----------------------------------------------------------------------------
(* class Push *)

\* The ref a push without 'ref' is given: 'refs/heads/master', as the
\* list of its segments between '/'.
DefaultRef == << "refs", "heads", "master" >>

\* d with d[k] = v
DictSet(d, k, v) == [x \in DOMAIN d \cup {k} |-> IF x = k THEN v ELSE d[x]]

\* COMMENT_TEMPLATE.format(...) for a commit: the comment block.
COMMENT_TEMPLATE_format(commit, branch, description) ==
  [changeset_id |-> GetD(commit, "id", ""),
   author |-> GetD(GetD(commit, "committer", EmptyDict), "name", ""),
   branch |-> branch,
   commit_msg |-> FirstLine(description),
   changeset_url |-> GetD(commit, "url", "")]

\* The loop over the matches in Push.handle_action.
RECURSIVE handle_action_matches(_, _, _)
handle_action_matches(matches, block, messages) ==
  IF matches = << >> THEN messages
  ELSE LET data == Head(matches)
           close == data.verb # None
       IN IF data.issue_id \in DOMAIN messages
          THEN handle_action_matches(Tail(matches), block, messages)
          ELSE handle_action_matches(
                 Tail(matches), block,
                 DictSet(messages, data.issue_id,
                         [msg |-> block, close |-> close]))

\* Push.handle_action: the dict issue id -> (comment block, close) of one
\* commit.
Push_handle_action(commit, ref) ==
  LET branch == ref[Len(ref)]
      description == GetD(commit, "message", << >>)
      matches == ISSUE_BPO_RE_finditer(description)
  IN handle_action_matches(
       matches, COMMENT_TEMPLATE_format(commit, branch, description),
       EmptyDict)

\* The inner loop of Push.dispatch: the entries of one commit's dict msgs
\* merged into messages.  The entries have distinct keys, so the order in
\* which the dict gives them does not change the result.
push_merge(messages, msgs) ==
  [issue_id \in DOMAIN messages \cup DOMAIN msgs |->
     IF issue_id \notin DOMAIN msgs THEN messages[issue_id]
     ELSE LET curr == IF issue_id \in DOMAIN messages THEN messages[issue_id]
                      ELSE [msg |-> << >>, close |-> FALSE]
          IN [msg |-> curr.msg \o << NL >> \o << msgs[issue_id].msg >>,
              close |-> curr.close \/ msgs[issue_id].close]]

\* The loop over the commits in Push.dispatch.
RECURSIVE push_messages(_, _, _)
push_messages(commits, ref, messages) ==
  IF commits = << >> THEN messages
  ELSE push_messages(Tail(commits), ref,
                     push_merge(messages, Push_handle_action(Head(commits), ref)))

\* "... and close, if needed"
push_close(db, issue_id) ==
  issue_set(issue_set(issue_set(db, issue_id, "status", lookup("closed")),
                      issue_id, "resolution", lookup("fixed")),
            issue_id, "stage", lookup("resolved"))

\* issue_msgs.append(newmsg); self.db.issue.set(id, messages=issue_msgs)
push_append(issue_id, issue_msgs, newmsg) ==
  issue_set(newmsg.db, issue_id, "messages", Append(issue_msgs, newmsg.val))

\* The body of the second loop of Push.dispatch once issue.get returned.
push_comment(db, issue_id, msg, close) ==
  IF close
  THEN push_close(push_append(issue_id, db.issue[issue_id].messages,
                              msg_create(db, msg, getuid(db))),
                  issue_id)
  ELSE push_append(issue_id, db.issue[issue_id].messages,
                   msg_create(db, msg, getuid(db)))

\* The body of the second loop of Push.dispatch for one issue.
push_issue(db, issue_id, msg, close) ==
  IF issue_id \notin DOMAIN db.issue
  THEN \* the store has no such node
       [db |-> Log(db, "issue.get", issue_id), exc |-> "IndexError"]
  ELSE [db |-> push_comment(Log(db, "issue.get", issue_id), issue_id, msg,
                            close),
        exc |-> ""]

RECURSIVE push_issues(_, _, _), push_next(_, _, _)
push_issues(db, messages, issue_ids) ==
  IF issue_ids = << >> THEN [db |-> db, exc |-> ""]
  ELSE push_next(push_issue(db, Head(issue_ids), messages[Head(issue_ids)].msg,
                            messages[Head(issue_ids)].close),
                 messages, Tail(issue_ids))

\* The loop goes on unless the body raised.
push_next(r, messages, issue_ids) ==
  IF r.exc # "" THEN r ELSE push_issues(r.db, messages, issue_ids)

\* The end of Push.dispatch: r is the result of the loop over messages.
push_commit(r) == IF r.exc # "" THEN r ELSE [db |-> db_commit(r.db), exc |-> ""]

\* Push.dispatch after the loop over the commits.
push_apply(db, messages, ord) ==
  IF DOMAIN messages = {} THEN [db |-> db, exc |-> ""]
  ELSE push_commit(
         push_issues(db, messages,
                     SelectSeq(ord, LAMBDA x : x \in DOMAIN messages)))

\* Push.dispatch; ord is the order in which the dict messages is iterated.
Push_dispatch(db, data, ord) ==
  LET username == get_github_username("Push", data)
  IN IF username.exc # "" THEN [db |-> db, exc |-> username.exc]
     ELSE push_apply(set_roundup_user(db, username.val),
                     push_messages(GetD(data, "commits", << >>),
                                   GetD(data, "ref", DefaultRef), EmptyDict),
                     ord)

-----------------------------------------------------------------------------
(* class GitHubHandler.  A request is [env, headers, form]: the CGI        *)
(* environment, the request headers and the raw body.                      *)

\* hmac.new(key, data, hashlib.sha1).hexdigest(): the digest, as the pair
\* it is computed from (no two pairs have the same digest).
hexdigest(key, data) == [key |-> key, data |-> data]

\* 'sha1=' + hexdigest
Signature(key, data) == [prefix |-> "sha1=", hex |-> Some(hexdigest(key, data))]

\* The empty string, as a header value.
EmptySignature == [prefix |-> "", hex |-> None]

\* compare_digest comparing the digests alone.
compare_digest_hex_only(a, b) == a.hex = b.hex

compare_digest(a, b) == a = b

\* json.loads(body): a body is [doc |-> d] when it is the JSON text of d.
json_loads(body) ==
  IF "doc" \in DOMAIN body THEN Ok(body.doc) ELSE Raise("ValueError")

\* GitHubHandler.get_event
get_event(request) == Get(request.headers, "X-GitHub-Event")

\* verify_request looking for the event header before the content type.
verify_request_event_first(request) ==
  LET method == Get(request.env, "REQUEST_METHOD")
      content_type == Get(request.env, "CONTENT_TYPE")
  IN IF method # Some("POST")
     THEN [exc |-> "MethodNotAllowed", trace |-> << "method" >>]
     ELSE IF Get(request.headers, "X-GitHub-Event") = None
     THEN [exc |-> "Reject", trace |-> << "method", "event" >>]
     ELSE IF content_type # Some("application/json")
     THEN [exc |-> "UnsupportedMediaType",
           trace |-> << "method", "event", "content_type" >>]
     ELSE [exc |-> "", trace |-> << "method", "event", "content_type" >>]

\* GitHubHandler.verify_request; trace lists the checks it evaluated.
verify_request(request) ==
  LET method == Get(request.env, "REQUEST_METHOD")
      content_type == Get(request.env, "CONTENT_TYPE")
  IN IF method # Some("POST")
     THEN [exc |-> "MethodNotAllowed", trace |-> << "method" >>]
     ELSE IF content_type # Some("application/json")
     THEN [exc |-> "UnsupportedMediaType",
           trace |-> << "method", "content_type" >>]
     ELSE IF get_event(request) = None
     THEN [exc |-> "Reject", trace |-> << "method", "content_type", "event" >>]
     ELSE [exc |-> "", trace |-> << "method", "content_type", "event" >>]

\* validate_webhook_secret letting a delivery without signature header in.
validate_webhook_secret_unsigned_ok(request, environ) ==
  LET key == Get(environ, "SECRET_KEY")
  IN IF key = None THEN [exc |-> "Reject", trace |-> << "secret" >>]
     ELSE IF "X-Hub-Signature" \notin DOMAIN request.headers
     THEN [exc |-> "", trace |-> << "secret" >>]
     ELSE IF Signature(key[1], request.form) # request.headers["X-Hub-Signature"]
     THEN [exc |-> "Unauthorised",
           trace |-> << "secret", "hmac", "signature" >>]
     ELSE [exc |-> "", trace |-> << "secret", "hmac", "signature" >>]

\* GitHubHandler.validate_webhook_secret
validate_webhook_secret(request, environ) ==
  LET key == Get(environ, "SECRET_KEY")
  IN IF key = None THEN [exc |-> "Reject", trace |-> << "secret" >>]
     ELSE LET signature == Signature(key[1], request.form)
              header_signature ==
                GetD(request.headers, "X-Hub-Signature", EmptySignature)
          IN IF ~compare_digest(signature, header_signature)
             THEN [exc |-> "Unauthorised",
                   trace |-> << "secret", "hmac", "signature" >>]
             ELSE [exc |-> "", trace |-> << "secret", "hmac", "signature" >>]

\* handler_class taking every event it does not know for a push.
handler_class_push_default(event) ==
  CASE event \in {"pull_request", "pull_request_review_comment"} ->
         "PullRequest"
    [] event = "issue_comment" -> "IssueComment"
    [] OTHER -> "Push"

\* The class that handles an event, "" when none does.
handler_class(event) ==
  CASE event \in {"pull_request", "pull_request_review_comment"} ->
         "PullRequest"
    [] event = "issue_comment" -> "IssueComment"
    [] event = "push" -> "Push"
    [] OTHER -> ""

\* The result of extract when the handler of class returned r.
extracted(class, r) == [db |-> r.db, exc |-> r.exc, trace |-> << "json", class >>]

\* GitHubHandler.extract
extract(db, request, environ, ord) ==
  LET event == get_event(request)
      class == IF event = None THEN "" ELSE handler_class(event[1])
      data == json_loads(request.form)
  IN IF class = "" THEN [db |-> db, exc |-> "", trace |-> << >>]
     ELSE IF data.exc # ""
     THEN [db |-> db, exc |-> data.exc, trace |-> << "json" >>]
     ELSE IF class = "Push"
     THEN extracted(class, Push_dispatch(db, data.val, ord))
     ELSE extracted(class, Event_dispatch(class, db, data.val, environ, ord))

\* The exceptions GitHubHandler.dispatch lets through.
HttpErrors == {"Unauthorised", "MethodNotAllowed", "UnsupportedMediaType", "Reject"}

\* dispatch without its last except clause.
reraise_nothing(exc) == exc

\* except Exception: raise Reject()
reraise(exc) == IF exc = "" \/ exc \in HttpErrors THEN exc ELSE "Reject"

\* The result of dispatch when extract returned r after the checks of
\* trace.
dispatched(trace, r) ==
  [db |-> r.db, exc |-> reraise(r.exc), trace |-> trace \o r.trace]

\* GitHubHandler.dispatch: exc is the error the delivery ends in, "" when
\* it is accepted.
GitHubHandler_dispatch(db, request, environ, ord) ==
  LET verified == verify_request(request)
      validated == validate_webhook_secret(request, environ)
  IN IF verified.exc # ""
     THEN [db |-> db, exc |-> reraise(verified.exc), trace |-> verified.trace]
     ELSE IF validated.exc # ""
     THEN [db |-> db, exc |-> reraise(validated.exc),
           trace |-> verified.trace \o validated.trace]
     ELSE dispatched(verified.trace \o validated.trace,
                     extract(db, request, environ, ord))

-----------------------------------------------------------------------------
(* The state *)

VARIABLES
  db,          \* the tracker store, and in db.ops the store calls of the
               \* last delivery
  environ,     \* os.environ: SECRET_KEY and CREATE_ISSUE when set
  request,     \* the last delivery
  outcome,     \* the error the last delivery ended in, "" when accepted
  trace,       \* the checks and stages the last delivery went through
  redelivery,  \* whether the last delivery repeated the one before it
  delivered,   \* the number of deliveries processed
  workers      \* the position and the locals of each worker that processes
               \* the delivery concurrently with others, << >> when one
               \* worker processes each delivery to its end

vars ==
  << db, environ, request, outcome, trace, redelivery, delivered, workers >>

\* No delivery is processed concurrently with another.
NoWorkers == << >>

\* The deliveries of one behaviour.
MaxDeliveries == 2

\* The users of the tracker: with and without the fallback user.
UserTables ==
  {<< [username |-> "admin", github |-> None],
      [username |-> "alice", github |-> Some("alice-gh")] >>,
   << [username |-> "admin", github |-> None],
      [username |-> "alice", github |-> Some("alice-gh")],
      [username |-> "python-dev", github |-> None] >>}

\* The number of issues the tracker starts with.
IssueCounts == {2}

BareIssue ==
  [title |-> << >>, pull_requests |-> << >>, messages |-> << >>,
   status |-> "open", resolution |-> "", stage |-> ""]

\* A tracker with the issues 1..n and no link or message yet.
InitDb(n, users) ==
  [issue |-> [id \in {Str(i) : i \in 1..n} |-> BareIssue],
   pull_request |-> EmptyDict,
   msg |-> EmptyDict,
   user |-> users,
   curuser |-> "anonymous",
   ops |-> << >>]

NoRequest == [env |-> EmptyDict, headers |-> EmptyDict, form |-> [text |-> ""]]

\* The ids the texts of the deliveries name: issues 1 and 2 exist, issue 9
\* does not.
TextIds == {<< 1 >>, << 2 >>, << 9 >>}

InitWith(environs, users) ==
  /\ environ \in environs
  /\ \E n \in IssueCounts, u \in users : db = InitDb(n, u)
  /\ request = NoRequest
  /\ outcome = ""
  /\ trace = << >>
  /\ redelivery = FALSE
  /\ delivered = 0
  /\ workers = NoWorkers

\* GitHubHandler(client).dispatch() for the delivery req.
Delivered(req, r) ==
  /\ delivered < MaxDeliveries
  /\ db' = r.db
  /\ request' = req
  /\ outcome' = r.exc
  /\ trace' = r.trace
  /\ redelivery' = (delivered > 0 /\ req = request)
  /\ delivered' = delivered + 1
  /\ UNCHANGED << environ, workers >>

Deliver(req, ord) ==
  Delivered(req, GitHubHandler_dispatch([db EXCEPT !.ops = << >>], req,
                                        environ, ord))

-----------------------------------------------------------------------------
(* Deliveries *)

\* A dict with the keys whose value is present.
Dict2(k1, v1, k2, v2) ==
  [k \in (IF v1 = None THEN {} ELSE {k1}) \cup (IF v2 = None THEN {} ELSE {k2})
     |-> IF k = k1 THEN v1[1] ELSE v2[1]]

\* The request with these CGI variables, headers and body; None leaves a
\* variable or a header out.
Request(method, content_type, event, signature, body) ==
  [env |-> Dict2("REQUEST_METHOD", method, "CONTENT_TYPE", content_type),
   headers |-> Dict2("X-GitHub-Event", event, "X-Hub-Signature", signature),
   form |-> body]

\* The delivery GitHub sends for body under the secret key.
Signed(event, key, body) ==
  Request(Some("POST"), Some("application/json"), Some(event),
          Some(Signature(key, body)), body)

Keys == {"k1", "k2"}

\* A body that is no JSON text.
Garbage == [text |-> "{"]

Commit(id, message) ==
  [id |-> id, message |-> message, url |-> id,
   committer |-> [name |-> "alice"]]

\* A push of commits by the GitHub user login.
PushBody(login, commits) ==
  [doc |-> [pusher |-> [name |-> login], ref |-> << "refs", "heads", "3.6" >>,
            commits |-> commits]]

\* "closes #1"
ClosesOne == << W("closes"), SP, HASH, N(<< 1 >>) >>

\* A push of one commit, "closes #1".
AuthPush == PushBody("alice-gh", << Commit("c1", ClosesOne) >>)

AuthBodies == {Garbage, AuthPush}

AuthEvents ==
  {None, Some("ping"), Some("pull_request"),
   Some("pull_request_review_comment"), Some("issue_comment"), Some("push")}

\* The X-Hub-Signature headers sent with body: none, the signature of the
\* body under a key, the signature of another body, and the digest without
\* its 'sha1=' prefix.
AuthSignatures(body) ==
  {None, Some([prefix |-> "", hex |-> Some(hexdigest("k1", body))])}
    \cup {Some(Signature(k, body)) : k \in Keys}
    \cup {Some(Signature("k1", b)) : b \in AuthBodies}

\* The deliveries of Spec: every event, signature header and body sent as
\* application/json by POST, and a push sent in every other way, with and
\* without its event header and its signature.
AuthRequests ==
  UNION {{Request(Some("POST"), Some("application/json"), e, s, b) :
            e \in AuthEvents, s \in AuthSignatures(b)} : b \in AuthBodies}
    \cup
  {Request(m, c, e, s, AuthPush) :
     m \in {None, Some("GET"), Some("POST")},
     c \in {None, Some("text/plain"), Some("application/json")},
     e \in {None, Some("push")},
     s \in {None, Some(Signature("k1", AuthPush))}}

AuthEnvirons ==
  {EmptyDict, [SECRET_KEY |-> "k1"], [SECRET_KEY |-> "k2"]}

\* The tracker with the fallback user.
AuthUsers == {u \in UserTables : Len(u) = 3}

InitAuth == InitWith(AuthEnvirons, AuthUsers)

\* Any delivery at all reaches the endpoint.
DeliverAuth == \E req \in AuthRequests : Deliver(req, << << 1 >> >>)

Spec == InitAuth /\ [][DeliverAuth]_vars

-----------------------------------------------------------------------------
(* Deliveries of pull requests and comments *)

\* The orders in which a set or a dict is iterated: one order of the ids
\* and its reverse give every order of any two of them.
IterationOrders ==
  {<< << 1 >>, << 2 >>, << 9 >> >>, << << 9 >>, << 2 >>, << 1 >> >>}

\* "fix typo"
TitleNoRef == << W("fix"), SP, W("typo") >>

\* "bpo1"
TitleOne == << W("bpo"), N(<< 1 >>) >>

\* "BPO 1: bpo2"
TitleOneTwo == << W("BPO"), SP, N(<< 1 >>), PUNCT, SP, W("bpo"), N(<< 2 >>) >>

\* "bpo 9"
TitleNine == << W("bpo"), SP, N(<< 9 >>) >>

\* "bpo1 bpo 9"
TitleOneNine == << W("bpo"), N(<< 1 >>), SP, W("bpo"), SP, N(<< 9 >>) >>

Titles == {<< >>, TitleNoRef, TitleOne, TitleOneTwo, TitleNine, TitleOneNine}

\* A pull_request payload; number is None when the key is missing.
PullRequestBody(action, number, title, state, merged, login) ==
  [doc |->
     [action |-> action,
      pull_request |->
        IF number = None
        THEN [title |-> title, state |-> state, merged |-> merged,
              user |-> [login |-> login]]
        ELSE [number |-> number[1], title |-> title, state |-> state,
              merged |-> merged, user |-> [login |-> login]]]]

\* Pull request 7, merged, with an empty title and the body "bpo1".
ClosedUntitled ==
  [doc |->
     [action |-> "closed",
      pull_request |->
        [number |-> 7, title |-> << >>, body |-> TitleOne, state |-> "closed",
         merged |-> TRUE, user |-> [login |-> "alice-gh"]]]]

\* The pull_request payloads: pull request 7 with every title, opened,
\* edited, labeled, closed and merged; and an opened pull request 8 and
\* opened pull requests without number.
PullRequestBodies ==
  {PullRequestBody(a, Some(7), t, "open", FALSE, "alice-gh") :
     a \in {"opened", "edited", "labeled"}, t \in Titles}
    \cup {PullRequestBody("closed", Some(7), t, "closed", m, "alice-gh") :
            t \in Titles, m \in {TRUE, FALSE}}
    \cup {PullRequestBody("closed", Some(7), TitleOne, "closed", FALSE, "bob-gh"),
          PullRequestBody("opened", Some(8), TitleOne, "open", FALSE, "bob-gh"),
          PullRequestBody("opened", None, TitleOne, "open", FALSE, "alice-gh"),
          PullRequestBody("opened", None, TitleNoRef, "open", FALSE,
                          "alice-gh"),
          ClosedUntitled}

\* The payloads of pull_request_review_comment.
ReviewCommentBodies ==
  {PullRequestBody("created", Some(7), t, "open", FALSE, "alice-gh") :
     t \in {TitleNoRef, TitleOne}}

\* The url of pull request n of the repository repo.
PullUrl(repo, n) ==
  [base |-> IF repo = "python/cpython" THEN URL_RE_prefix ELSE repo,
   number |-> Str(n)]

\* An issue_comment payload; url is None when the issue is no pull
\* request.
IssueCommentBody(action, title, url, body) ==
  [doc |->
     [action |-> action,
      issue |->
        IF url = None THEN [title |-> title, user |-> [login |-> "alice-gh"]]
        ELSE [title |-> title, user |-> [login |-> "alice-gh"],
              pull_request |-> [html_url |-> url[1]]],
      comment |-> [body |-> body]]]

IssueCommentBodies ==
  {IssueCommentBody(a, t, u, << >>) :
     a \in {"created", "deleted"}, t \in {TitleNoRef, TitleOne},
     u \in {None, Some(PullUrl("python/cpython", 7)),
            Some(PullUrl("https://github.com/python/peps/pull/", 7))}}
    \cup {IssueCommentBody("edited", TitleNoRef, None, TitleOneTwo),
          [doc |-> [action |-> "created",
                    issue |-> [title |-> TitleOne,
                               pull_request |-> EmptyDict]]],
          [doc |-> [action |-> "created",
                    comment |-> [body |-> TitleOne]]]}

\* "fix typo" once more, as a commit message.
LinkPushBodies ==
  {PushBody("alice-gh", << Commit("c1", ClosesOne) >>),
   PushBody("alice-gh", << Commit("c2", TitleNoRef) >>)}

\* The deliveries of SpecLink, each signed under the secret k1.
LinkRequests ==
  {Signed("pull_request", "k1", b) : b \in PullRequestBodies}
    \cup {Signed("pull_request_review_comment", "k1", b) :
            b \in ReviewCommentBodies}
    \cup {Signed("issue_comment", "k1", b) : b \in IssueCommentBodies}
    \cup {Signed("push", "k1", b) : b \in LinkPushBodies}

\* CREATE_ISSUE unset, set, and set to the empty string.
LinkEnvirons ==
  {[SECRET_KEY |-> "k1"], [SECRET_KEY |-> "k1", CREATE_ISSUE |-> "1"],
   [SECRET_KEY |-> "k1", CREATE_ISSUE |-> ""]}

InitLink == InitWith(LinkEnvirons, AuthUsers)

\* GitHub delivers a pull request, comment or push event.
DeliverLink ==
  \E req \in LinkRequests, ord \in IterationOrders : Deliver(req, ord)

SpecLink == InitLink /\ [][DeliverLink]_vars

\* A tracker whose next issue id has two digits.
ManyIssues == 11

\* Issue creation is enabled.
CreateEnvirons == {[SECRET_KEY |-> "k1", CREATE_ISSUE |-> "1"]}

InitCreate ==
  /\ environ \in CreateEnvirons
  /\ \E u \in AuthUsers : db = InitDb(ManyIssues, u)
  /\ request = NoRequest
  /\ outcome = ""
  /\ trace = << >>
  /\ redelivery = FALSE
  /\ delivered = 0
  /\ workers = NoWorkers

\* GitHub delivers a pull request, comment or push event to that tracker.
DeliverCreate ==
  \E req \in LinkRequests, ord \in IterationOrders : Deliver(req, ord)

SpecCreate == InitCreate /\ [][DeliverCreate]_vars

-----------------------------------------------------------------------------
(* Deliveries of pushes *)

\* The commits of one push.
MaxCommits == 3

\* "#1: fix typo"
RefOne == << HASH, N(<< 1 >>), PUNCT, SP, W("fix"), SP, W("typo") >>

\* "bug 2"
BugTwo == << W("bug"), SP, N(<< 2 >>) >>

\* "see #2"
SeeTwo == << W("see"), SP, HASH, N(<< 2 >>) >>

\* "closes #9"
ClosesNine == << W("closes"), SP, HASH, N(<< 9 >>) >>

\* The commits a push is made of, oldest first.
PushCommits ==
  << Commit("c1", ClosesOne), Commit("c2", RefOne), Commit("c3", BugTwo),
     Commit("c4", SeeTwo), Commit("c5", ClosesNine),
     Commit("c6", TitleNoRef) >>

\* The pushes of at most MaxCommits of these commits, each in the order
\* of PushCommits; a push without pusher and one without ref.
PushBodies ==
  {PushBody("alice-gh",
            SelectSeq(PushCommits, LAMBDA c : c.id \in ids)) :
     ids \in {x \in SUBSET {"c1", "c2", "c3", "c4", "c5", "c6"} :
                Cardinality(x) <= MaxCommits}}
    \cup {[doc |-> [ref |-> << "refs", "heads", "3.6" >>,
                    commits |-> << Commit("c1", ClosesOne) >>]],
          [doc |-> [pusher |-> [name |-> "bob-gh"],
                    commits |-> << Commit("c1", ClosesOne) >>]]}

PushRequests == {Signed("push", "k1", b) : b \in PushBodies}

PushEnvirons == {[SECRET_KEY |-> "k1"]}

InitPush == InitWith(PushEnvirons, AuthUsers)

\* GitHub delivers a push event.
DeliverPush ==
  \E req \in PushRequests, ord \in IterationOrders : Deliver(req, ord)

SpecPush == InitPush /\ [][DeliverPush]_vars

-----------------------------------------------------------------------------
(* Deliveries by mapped and unmapped users *)

\* Pushes by a GitHub user no tracker user is mapped to, and by nobody.
UserPushBodies ==
  {PushBody("bob-gh", << Commit("c1", ClosesOne) >>),
   [doc |-> [ref |-> << "refs", "heads", "3.6" >>,
             commits |-> << Commit("c1", ClosesOne) >>]]}

UserRequests ==
  LinkRequests \cup {Signed("push", "k1", b) : b \in UserPushBodies}

\* The trackers with and without the fallback user.
InitUser == InitWith(PushEnvirons, UserTables)

\* GitHub delivers an event of any handled type.
DeliverUser ==
  \E req \in UserRequests, ord \in IterationOrders : Deliver(req, ord)

SpecUser == InitUser /\ [][DeliverUser]_vars

-----------------------------------------------------------------------------
(* One delivery processed by several workers at once.  Each worker runs    *)
(* Event.dispatch and Event.handle_create for the same opened pull         *)
(* request; a step of a worker is one store call, and the workers share    *)
(* the store and nothing else.                                             *)

\* The workers that process the delivery.
MaxWorkers == 2

Workers == 1..MaxWorkers

\* Pull request 7, opened, naming issue 1, the issues 1 and 2, and the
\* issues 1 and 9.
RaceRequests ==
  {Signed("pull_request", "k1",
          PullRequestBody("opened", Some(7), t, "open", FALSE, "alice-gh")) :
     t \in {TitleOne, TitleOneTwo, TitleOneNine}}

\* A worker before self.set_roundup_user(): class is the class of its
\* handler and doc the payload it was constructed with.
Idle ==
  [pc |-> "dispatch", class |-> "", doc |-> EmptyDict, issue_ids |-> << >>,
   prid |-> None, title |-> None, status |-> None, prs |-> << >>,
   newpr |-> << >>, messages |-> EmptyDict, issue_msgs |-> << >>,
   newmsg |-> << >>]

\* The worker that handler_class(event)(db, doc).dispatch() starts.
Started(event, doc) ==
  [Idle EXCEPT !.class = handler_class(event), !.doc = doc]

InitRace ==
  /\ environ \in PushEnvirons
  /\ \E n \in IssueCounts, u \in AuthUsers : db = InitDb(n, u)
  /\ request \in RaceRequests
  /\ outcome = ""
  /\ trace = << >>
  /\ redelivery = FALSE
  /\ delivered = 0
  /\ workers = [w \in Workers |-> Started("pull_request", request.form.doc)]

\* The step of worker w that leaves the store as d and the worker as l.
\* The store calls are not recorded: what matters here is the store.
Stepped(w, d, l) ==
  /\ db' = [d EXCEPT !.ops = << >>]
  /\ workers' = [workers EXCEPT ![w] = l]
  /\ UNCHANGED << environ, request, outcome, trace, redelivery, delivered >>

\* Where a worker goes on once it is through with the first of issue_ids.
NextIssue(l) ==
  [l EXCEPT !.issue_ids = Tail(@),
            !.pc = IF Tail(l.issue_ids) = << >> THEN "done" ELSE "get"]

\* Event.dispatch up to handle_action: the worker resolves the actor and
\* reads the issue ids and the details of the pull request off the payload.
WorkerDispatch(w, ord) ==
  /\ workers[w].pc = "dispatch"
  /\ workers[w].class = "PullRequest"
  /\ Stepped(w,
             set_roundup_user(db, get_github_username("PullRequest",
                                                      workers[w].doc).val),
             [workers[w] EXCEPT
                !.pc = "exists",
                !.issue_ids = get_issue_ids("PullRequest", workers[w].doc,
                                            ord).val,
                !.prid = get_pr_details("PullRequest",
                                        workers[w].doc).val.prid,
                !.title = get_pr_details("PullRequest",
                                         workers[w].doc).val.title,
                !.status = get_pr_details("PullRequest",
                                          workers[w].doc).val.status])

\* issue_exists = len(self.db.issue.filter(None, {'id': issue_ids}))
\*                  == len(issue_ids)
WorkerExists(w) ==
  /\ workers[w].pc = "exists"
  /\ Stepped(w, Log(db, "issue.filter", None),
             [workers[w] EXCEPT
                !.pc = IF Cardinality(issue_filter_id(db, workers[w].issue_ids))
                            # Len(workers[w].issue_ids)
                       THEN "done" ELSE "get"])

\* prs = self.db.issue.get(issue_id, 'pull_requests')
WorkerGet(w) ==
  /\ workers[w].pc = "get"
  /\ Stepped(w, Log(db, "issue.get", Head(workers[w].issue_ids)),
             [workers[w] EXCEPT
                !.pc = "filter",
                !.prs = db.issue[Head(workers[w].issue_ids)].pull_requests])

\* if set(prs).intersection(self.db.pull_request.filter(...)): continue
WorkerFilter(w) ==
  /\ workers[w].pc = "filter"
  /\ Stepped(w, Log(db, "pull_request.filter", None),
             IF already_linked(db, workers[w].prs, workers[w].prid)
             THEN NextIssue(workers[w])
             ELSE [workers[w] EXCEPT !.pc = "create"])

\* newpr = self.db.pull_request.create(number=prid, title=title,
\*                                      status=status)
WorkerCreate(w) ==
  /\ workers[w].pc = "create"
  /\ Stepped(w,
             pull_request_create(db, workers[w].prid, workers[w].title,
                                 workers[w].status).db,
             [workers[w] EXCEPT
                !.pc = "set",
                !.newpr = pull_request_create(db, workers[w].prid,
                                              workers[w].title,
                                              workers[w].status).val])

\* prs.append(newpr); self.db.issue.set(issue_id, pull_requests=prs)
WorkerSet(w) ==
  /\ workers[w].pc = "set"
  /\ Stepped(w,
             issue_set(db, Head(workers[w].issue_ids), "pull_requests",
                       Append(workers[w].prs, workers[w].newpr)),
             [workers[w] EXCEPT !.pc = "commit"])

\* self.db.commit(), and on to the next issue
WorkerCommit(w) ==
  /\ workers[w].pc = "commit"
  /\ Stepped(w, db_commit(db), NextIssue(workers[w]))

\* Some worker takes its next step.
StepRace ==
  \E w \in Workers :
    \/ \E ord \in IterationOrders : WorkerDispatch(w, ord)
    \/ WorkerExists(w)
    \/ WorkerGet(w)
    \/ WorkerFilter(w)
    \/ WorkerCreate(w)
    \/ WorkerSet(w)
    \/ WorkerCommit(w)

SpecRace == InitRace /\ [][StepRace]_vars

-----------------------------------------------------------------------------
(* Several deliveries processed at once, one by each worker: pull requests *)
(* and pushes that name the same issue.  A worker of a push runs           *)
(* Push.dispatch, one store call a step.                                   *)

\* Where a worker of a push goes on once it is through with the first of
\* issue_ids: to the next issue, or to the commit that ends Push.dispatch.
NextMessage(l) ==
  [l EXCEPT !.issue_ids = Tail(@),
            !.pc = IF Tail(l.issue_ids) = << >> THEN "commit_push"
                   ELSE "issue_msgs"]

\* Push.dispatch up to the loop over messages: the worker resolves the
\* actor and folds the commits into messages; ord is the order in which
\* that dict is iterated.
WorkerPush(w, ord) ==
  /\ workers[w].pc = "dispatch"
  /\ workers[w].class = "Push"
  /\ Stepped(w,
             set_roundup_user(db, get_github_username("Push",
                                                      workers[w].doc).val),
             [workers[w] EXCEPT
                !.messages = push_messages(GetD(workers[w].doc, "commits",
                                                << >>),
                                           GetD(workers[w].doc, "ref",
                                                DefaultRef),
                                           EmptyDict),
                !.issue_ids =
                  SelectSeq(ord, LAMBDA x :
                    x \in DOMAIN push_messages(
                                   GetD(workers[w].doc, "commits", << >>),
                                   GetD(workers[w].doc, "ref", DefaultRef),
                                   EmptyDict)),
                !.pc = IF DOMAIN push_messages(
                                   GetD(workers[w].doc, "commits", << >>),
                                   GetD(workers[w].doc, "ref", DefaultRef),
                                   EmptyDict) = {}
                       THEN "done" ELSE "issue_msgs"])

\* issue_msgs = self.db.issue.get(id, 'messages'), which raises when the
\* store has no such issue
WorkerMessages(w) ==
  /\ workers[w].pc = "issue_msgs"
  /\ Stepped(w, Log(db, "issue.get", Head(workers[w].issue_ids)),
             IF Head(workers[w].issue_ids) \notin DOMAIN db.issue
             THEN [workers[w] EXCEPT !.pc = "done"]
             ELSE [workers[w] EXCEPT
                     !.pc = "newmsg",
                     !.issue_msgs =
                       db.issue[Head(workers[w].issue_ids)].messages])

\* newmsg = self.db.msg.create(content=msg, author=self.db.getuid(), ...)
WorkerMsg(w) ==
  /\ workers[w].pc = "newmsg"
  /\ Stepped(w,
             msg_create(db,
                        workers[w].messages[Head(workers[w].issue_ids)].msg,
                        getuid(db)).db,
             [workers[w] EXCEPT
                !.pc = "append",
                !.newmsg =
                  msg_create(db,
                             workers[w].messages[Head(workers[w].issue_ids)].msg,
                             getuid(db)).val])

\* issue_msgs.append(newmsg); self.db.issue.set(id, messages=issue_msgs)
WorkerAppend(w) ==
  /\ workers[w].pc = "append"
  /\ Stepped(w,
             issue_set(db, Head(workers[w].issue_ids), "messages",
                       Append(workers[w].issue_msgs, workers[w].newmsg)),
             IF workers[w].messages[Head(workers[w].issue_ids)].close
             THEN [workers[w] EXCEPT !.pc = "status"]
             ELSE NextMessage(workers[w]))

\* "... and close, if needed": the three calls of issue.set, one a step.
WorkerClose(w) ==
  /\ workers[w].pc \in {"status", "resolution", "stage"}
  /\ CASE workers[w].pc = "status" ->
            Stepped(w, issue_set(db, Head(workers[w].issue_ids), "status",
                                 lookup("closed")),
                    [workers[w] EXCEPT !.pc = "resolution"])
       [] workers[w].pc = "resolution" ->
            Stepped(w, issue_set(db, Head(workers[w].issue_ids), "resolution",
                                 lookup("fixed")),
                    [workers[w] EXCEPT !.pc = "stage"])
       [] workers[w].pc = "stage" ->
            Stepped(w, issue_set(db, Head(workers[w].issue_ids), "stage",
                                 lookup("resolved")),
                    NextMessage(workers[w]))

\* self.db.commit(), the last statement of Push.dispatch
WorkerPushCommit(w) ==
  /\ workers[w].pc = "commit_push"
  /\ Stepped(w, db_commit(db), [workers[w] EXCEPT !.pc = "done"])

\* The deliveries the workers process: the pull requests 7 and 8 opened,
\* each naming issue 1, and two pushes of one commit that references
\* issue 1, one of them closing it.
ConcurrentDeliveries ==
  {Started("pull_request",
           PullRequestBody("opened", Some(n), TitleOne, "open", FALSE,
                           "alice-gh").doc) : n \in {7, 8}}
    \cup {Started("push", PushBody("alice-gh", << c >>).doc) :
            c \in {Commit("c1", ClosesOne), Commit("c2", RefOne)}}

InitConcurrent ==
  /\ environ \in PushEnvirons
  /\ \E n \in IssueCounts, u \in AuthUsers : db = InitDb(n, u)
  /\ request = NoRequest
  /\ outcome = ""
  /\ trace = << >>
  /\ redelivery = FALSE
  /\ delivered = 0
  /\ workers \in [Workers -> ConcurrentDeliveries]

\* Some worker takes its next step.
StepConcurrent ==
  \E w \in Workers :
    \/ \E ord \in IterationOrders : WorkerDispatch(w, ord)
    \/ WorkerExists(w)
    \/ WorkerGet(w)
    \/ WorkerFilter(w)
    \/ WorkerCreate(w)
    \/ WorkerSet(w)
    \/ WorkerCommit(w)
    \/ \E ord \in IterationOrders : WorkerPush(w, ord)
    \/ WorkerMessages(w)
    \/ WorkerMsg(w)
    \/ WorkerAppend(w)
    \/ WorkerClose(w)
    \/ WorkerPushCommit(w)

SpecConcurrent == InitConcurrent /\ [][StepConcurrent]_vars

-----------------------------------------------------------------------------
(* Longer sequences of deliveries about the pull requests 7 and 8 *)

\* The deliveries of one such sequence.
MaxSequence == 3

\* Pull request 7 opened, edited and merged and pull request 8 opened and
\* edited, each naming issue 1 or the issues 1 and 2; a review comment on
\* pull request 7, created and edited; and comments on pull request 7 and
\* on a pull request of another repository.
SequenceRequests ==
  {Signed("pull_request", "k1",
          PullRequestBody(a, Some(7), t, "open", FALSE, "alice-gh")) :
     a \in {"opened", "edited"}, t \in {TitleOne, TitleOneTwo}}
    \cup {Signed("pull_request", "k1",
                 PullRequestBody("closed", Some(7), TitleOne, "closed", TRUE,
                                 "alice-gh")),
          Signed("pull_request", "k1",
                 PullRequestBody("opened", Some(8), TitleOne, "open", FALSE,
                                 "bob-gh")),
          Signed("pull_request", "k1",
                 PullRequestBody("edited", Some(8), TitleOneTwo, "open", FALSE,
                                 "bob-gh"))}
    \cup {Signed("pull_request_review_comment", "k1",
                 PullRequestBody(a, Some(7), TitleOne, "open", FALSE,
                                 "alice-gh")) : a \in {"created", "edited"}}
    \cup {Signed("issue_comment", "k1",
                 IssueCommentBody("created", TitleOne, Some(u), << >>)) :
            u \in {PullUrl("python/cpython", 7),
                   PullUrl("https://github.com/python/peps/pull/", 7)}}

InitSequence == InitWith(PushEnvirons, AuthUsers)

\* GitHubHandler(client).dispatch() for the delivery req, one of a sequence
\* processed one after the other.
Sequenced(req, r) ==
  /\ delivered < MaxSequence
  /\ db' = r.db
  /\ request' = req
  /\ outcome' = r.exc
  /\ trace' = r.trace
  /\ redelivery' = (delivered > 0 /\ req = request)
  /\ delivered' = delivered + 1
  /\ UNCHANGED << environ, workers >>

DeliverSequence ==
  \E req \in SequenceRequests, ord \in IterationOrders :
    Sequenced(req, GitHubHandler_dispatch([db EXCEPT !.ops = << >>], req,
                                          environ, ord))

SpecSequence == InitSequence /\ [][DeliverSequence]_vars

-----------------------------------------------------------------------------
(* What a delivery is, read off the request *)

Method == Get(request.env, "REQUEST_METHOD")

ContentType == Get(request.env, "CONTENT_TYPE")

EventType == Get(request.headers, "X-GitHub-Event")

SignatureHeader == Get(request.headers, "X-Hub-Signature")

SecretKey == Get(environ, "SECRET_KEY")

\* 'sha1=' followed by the HMAC of the raw body under the configured secret.
ExpectedSignature ==
  [prefix |-> "sha1=",
   hex |-> Some([key |-> environ.SECRET_KEY, data |-> request.form])]

MethodOk == Method = Some("POST")

ContentTypeOk == ContentType = Some("application/json")

EventOk == EventType # None

SecretOk == SecretKey # None

SignatureOk == SecretOk /\ SignatureHeader = Some(ExpectedSignature)

\* The delivery passed every authentication check.
Authenticated == MethodOk /\ ContentTypeOk /\ EventOk /\ SecretOk /\ SignatureOk

HandledEvents ==
  {"pull_request", "pull_request_review_comment", "issue_comment", "push"}

\* The store calls of the last delivery, by name.
OpNames == {db.ops[i].op : i \in 1..Len(db.ops)}

\* The last delivery issued no store call.
NoStoreCall == db.ops = << >>

\* The order of the checks of an authentication.
CheckOrder == << "method", "content_type", "event", "secret", "hmac", "signature" >>

IsPrefix(s, t) == Len(s) <= Len(t) /\ SubSeq(t, 1, Len(s)) = s

\* The checks among the stages of the last delivery.
ChecksDone == SelectSeq(trace, LAMBDA x : x \in Range(CheckOrder))

\* The payload of a delivery whose body is JSON text.
Decoded == "doc" \in DOMAIN request.form

Payload == request.form.doc

Action == GetD(Payload, "action", "")

\* The store calls of the last delivery that change the store.
Mutations == OpNames \cap MutatingOps

\* The number of calls of op during the last delivery.
Calls(op) == Cardinality({i \in 1..Len(db.ops) : db.ops[i].op = op})

\* An authenticated pull_request delivery with action 'opened' that
\* carries the number of its pull request.
OpenedPullRequest ==
  /\ Authenticated
  /\ EventType = Some("pull_request")
  /\ Decoded
  /\ Action = "opened"
  /\ "pull_request" \in DOMAIN Payload
  /\ "number" \in DOMAIN Payload.pull_request

\* The issue ids the title and the body of the pull request name.
PullRequestRefs ==
  Range(ISSUE_GH_RE_findall(GetD(Payload.pull_request, "title", << >>))
          \o ISSUE_GH_RE_findall(GetD(Payload.pull_request, "body", << >>)))

PullRequestNumber == Some(Str(Payload.pull_request.number))

\* The links of an issue that carry the number prid.
LinksOn(issue_id, prid) ==
  {k \in 1..Len(db.issue[issue_id].pull_requests) :
     db.pull_request[db.issue[issue_id].pull_requests[k]].number = prid}

\* An authenticated issue_comment delivery whose issue carries no
\* pull-request url.
CommentWithoutUrl ==
  /\ Authenticated
  /\ EventType = Some("issue_comment")
  /\ Decoded
  /\ Get(GetD(GetD(Payload, "issue", EmptyDict), "pull_request", EmptyDict),
         "html_url") = None

\* The issue ids the title of the issue and the body of the comment name.
CommentRefs ==
  Range(ISSUE_GH_RE_findall(
          GetD(GetD(Payload, "issue", EmptyDict), "title", << >>))
          \o ISSUE_GH_RE_findall(
               GetD(GetD(Payload, "comment", EmptyDict), "body", << >>)))

\* An authenticated push delivery that names its pusher.
PushDelivery ==
  /\ Authenticated
  /\ EventType = Some("push")
  /\ Decoded
  /\ "pusher" \in DOMAIN Payload

PushCommitList == GetD(Payload, "commits", << >>)

\* The references of a commit: the matches of its message.
CommitRefs(commit) == Range(ISSUE_BPO_RE_finditer(GetD(commit, "message", << >>)))

\* The issue ids the commits of the push reference.
PushRefs ==
  UNION {{m.issue_id : m \in CommitRefs(c)} : c \in Range(PushCommitList)}

\* Some commit of the push references the issue after one of the verbs
\* close, closes, closed and closing.
CloseIntent(issue_id) ==
  \E c \in Range(PushCommitList) :
    \E m \in CommitRefs(c) :
      /\ m.issue_id = issue_id
      /\ m.verb # None
      /\ Lower(m.verb[1]) \in VerbWords

Closed(issue) ==
  /\ issue.status = "closed"
  /\ issue.resolution = "fixed"
  /\ issue.stage = "resolved"

-----------------------------------------------------------------------------
(* Claims *)

\* C1: dispatch evaluates its checks in the order method, content type,
\* event header, secret configured, signature, and a delivery ends in the
\* error of the first check that fails; a wrong content type is rejected
\* before any signature is computed, and no delivery is accepted while no
\* secret is configured.
C1_CheckOrder ==
  delivered > 0 =>
    /\ IsPrefix(ChecksDone, CheckOrder)
    /\ ~MethodOk => outcome = "MethodNotAllowed" /\ ChecksDone = << "method" >>
    /\ MethodOk /\ ~ContentTypeOk =>
         /\ outcome = "UnsupportedMediaType"
         /\ ChecksDone = << "method", "content_type" >>
    /\ MethodOk /\ ContentTypeOk /\ ~EventOk =>
         /\ outcome = "Reject"
         /\ ChecksDone = << "method", "content_type", "event" >>
    /\ MethodOk /\ ContentTypeOk /\ EventOk /\ ~SecretOk =>
         /\ outcome = "Reject"
         /\ ChecksDone = << "method", "content_type", "event", "secret" >>
    /\ MethodOk /\ ContentTypeOk /\ EventOk /\ SecretOk /\ ~SignatureOk =>
         /\ outcome = "Unauthorised"
         /\ ChecksDone = CheckOrder
    /\ ~SecretOk => outcome # ""

\* A delivery of the wrong content type that carries the right signature.
C1_Witness ==
  /\ delivered > 0
  /\ MethodOk /\ ~ContentTypeOk /\ EventOk
  /\ SignatureOk
  /\ outcome = "UnsupportedMediaType"

\* C2: a delivery that fails an authentication check issues no store call
\* (no setCurrentUser, create, set or commit); the payload is decoded and a
\* handler run only after every check has passed.
C2_NoStoreCallUnlessAuthenticated ==
  delivered > 0 /\ ~Authenticated =>
    /\ NoStoreCall
    /\ outcome # ""
    /\ Range(trace) \subseteq Range(CheckOrder)

\* A push that would close issue 1, refused for its signature.
C2_Witness ==
  /\ delivered > 0
  /\ EventType = Some("push")
  /\ "doc" \in DOMAIN request.form
  /\ MethodOk /\ ContentTypeOk /\ SecretOk /\ ~SignatureOk
  /\ outcome = "Unauthorised"
  /\ NoStoreCall

\* C3: with a secret configured, a delivery that reaches the signature
\* check passes it if and only if its X-Hub-Signature header is 'sha1='
\* followed by the HMAC of its raw body under the secret; any other header
\* value, and no header, is Unauthorised.
C3_SignatureAcceptedIff ==
  delivered > 0 /\ MethodOk /\ ContentTypeOk /\ EventOk /\ SecretOk =>
    /\ outcome = "Unauthorised" <=> SignatureHeader # Some(ExpectedSignature)
    /\ SignatureHeader = None => outcome = "Unauthorised"

\* The signature of the body under another secret is refused.
C3_Witness ==
  /\ delivered > 0 /\ MethodOk /\ ContentTypeOk /\ EventOk /\ SecretOk
  /\ \E k \in Keys \ {environ.SECRET_KEY} :
       SignatureHeader = Some(Signature(k, request.form))
  /\ outcome = "Unauthorised"

\* C4 as claimed: after the same pull_request 'opened' payload, referencing
\* existing issues, was processed twice in sequence, the store holds exactly
\* one link record of that pull-request number, and the second delivery
\* created no pull_request record and changed no link list.
C4_Original ==
  /\ redelivery
  /\ OpenedPullRequest
  /\ PullRequestRefs # {}
  /\ PullRequestRefs \subseteq DOMAIN db.issue
  => /\ Cardinality(pull_request_filter_number(db, PullRequestNumber)) = 1
     /\ Mutations = {}

\* C4, amended: after the same pull_request 'opened' payload, referencing
\* existing issues, was processed twice in sequence, each referenced issue
\* has exactly one link of that pull-request number (one link record per
\* referenced issue, not one in the store), and the second delivery created
\* no pull_request record and changed no link list.
C4_RedeliverySafe ==
  /\ redelivery
  /\ OpenedPullRequest
  /\ PullRequestRefs # {}
  /\ PullRequestRefs \subseteq DOMAIN db.issue
  => /\ \A i \in PullRequestRefs :
          Cardinality(LinksOn(i, PullRequestNumber)) = 1
     /\ Mutations = {}
     /\ outcome = ""

\* The pull request that names the issues 1 and 2, opened twice: two link
\* records of its number, one on each issue.
C4_Witness ==
  /\ redelivery
  /\ OpenedPullRequest
  /\ PullRequestRefs = {<< 1 >>, << 2 >>}
  /\ Cardinality(pull_request_filter_number(db, PullRequestNumber)) = 2
  /\ \A i \in PullRequestRefs : Cardinality(LinksOn(i, PullRequestNumber)) = 1
  /\ Mutations = {}

\* C5 as claimed: a push delivery appends exactly one new message to each
\* issue a commit references and commits once, after the last issue; when
\* no commit references an issue it changes nothing, commits nothing and
\* succeeds.
C5_Original ==
  [][PushDelivery' =>
       IF PushRefs' = {}
       THEN /\ outcome' = ""
            /\ Mutations' = {}
            /\ Calls("commit")' = 0
       ELSE /\ \A i \in PushRefs' \cap DOMAIN db.issue :
                 Len(db'.issue[i].messages) = Len(db.issue[i].messages) + 1
            /\ Calls("msg.create")' = Cardinality(PushRefs')
            /\ Calls("commit")' = 1
            /\ db'.ops[Len(db'.ops)].op = "commit"]_vars

\* C6 as claimed: a push closes a referenced issue (status closed,
\* resolution fixed, stage resolved) if and only if one of its commits
\* references the issue with close intent; an issue referenced without close
\* intent keeps its status, resolution and stage.
C6_Original ==
  [][PushDelivery' =>
       \A i \in PushRefs' \cap DOMAIN db.issue :
         IF CloseIntent(i)'
         THEN Closed(db'.issue[i])
         ELSE /\ db'.issue[i].status = db.issue[i].status
              /\ db'.issue[i].resolution = db.issue[i].resolution
              /\ db'.issue[i].stage = db.issue[i].stage]_vars

\* C7: an authenticated delivery of an event type that no handler takes is
\* accepted and leaves the store as it was: no store call, no identity
\* change, no node created or set.
C7_UnknownEventNoEffect ==
  [][(Authenticated /\ EventType[1] \notin HandledEvents)' =>
       /\ outcome' = ""
       /\ db' = [db EXCEPT !.ops = << >>]]_vars

\* An authenticated ping.
C7_Witness ==
  /\ delivered > 0
  /\ Authenticated
  /\ EventType = Some("ping")
  /\ outcome = ""

\* C8: an issue_comment delivery whose issue carries no pull-request url
\* changes no issue, link or message and issues no create or set, whatever
\* its action, the issue ids it names and the setting of CREATE_ISSUE.
C8_CommentWithoutUrlNoMutation ==
  [][CommentWithoutUrl' =>
       /\ db'.issue = db.issue
       /\ db'.pull_request = db.pull_request
       /\ db'.msg = db.msg
       /\ Mutations' = {}]_vars

\* A created comment that names issue 1, on an issue without url, with
\* issue creation enabled.
C8_Witness ==
  /\ delivered > 0
  /\ CommentWithoutUrl
  /\ "issue" \in DOMAIN Payload
  /\ Action = "created"
  /\ CommentRefs = {<< 1 >>}
  /\ create_issue(environ)
  /\ Mutations = {}

\* C9 as claimed: an issue is created only by a pull_request event with
\* action 'opened', with issue creation enabled and no issue id named in the
\* payload.
C9_Original ==
  delivered > 0 /\ "issue.create" \in OpNames =>
    /\ EventType = Some("pull_request")
    /\ Action = "opened"
    /\ create_issue(environ)
    /\ PullRequestRefs = {}

\* C10 as claimed: an authenticated delivery whose payload is no JSON text
\* ends in Reject, whatever its event type.
C10_Original ==
  delivered > 0 /\ Authenticated /\ "doc" \notin DOMAIN request.form =>
    outcome = "Reject"

\* C10, amended: an authenticated delivery whose payload is no JSON text
\* ends in Reject when its event type is pull_request,
\* pull_request_review_comment, issue_comment or push; for any other event
\* type the payload is not decoded and the delivery is accepted.
C10_UndecodableRejected ==
  delivered > 0 /\ Authenticated /\ "doc" \notin DOMAIN request.form =>
    IF EventType[1] \in HandledEvents
    THEN outcome = "Reject" /\ NoStoreCall
    ELSE outcome = "" /\ "json" \notin Range(trace)

\* An authenticated push whose body is no JSON text.
C10_Witness ==
  /\ delivered > 0
  /\ Authenticated
  /\ EventType = Some("push")
  /\ "doc" \notin DOMAIN request.form
  /\ outcome = "Reject"

\* C11 as claimed: processing the same push twice in sequence leaves every
\* referenced issue with the message history, status, resolution and stage
\* it had after the first delivery; the second delivery appends no comment.
C11_Original ==
  [][(/\ redelivery
      /\ PushDelivery
      /\ PushRefs # {}
      /\ PushRefs \subseteq DOMAIN db.issue)' =>
       /\ \A i \in PushRefs' : db'.issue[i] = db.issue[i]
       /\ Calls("msg.create")' = 0]_vars

\* C12 as claimed: a delivery that ends in an error has issued no store
\* create or set call.
C12_Original ==
  delivered > 0 /\ outcome # "" => Mutations = {}

\* The tokens of a text at which a marker (#, issue or bug) and the number
\* issue_id stand.
MarkerPositions(text, issue_id) ==
  {p \in 1..Len(text) :
     /\ MarkerAt(text, p, None).ok
     /\ MarkerAt(text, p, None).issue_id = issue_id}

\* One of the verbs close, closes, closed and closing, then whitespace,
\* stands immediately before token p.
VerbBefore(text, p) ==
  \E v \in 1..(p - 2) :
    /\ text[v].k = "word"
    /\ Lower(text[v].w) \in VerbWords
    /\ WordBoundary(text, v)
    /\ \A q \in (v + 1)..(p - 1) : IsSpace(text[q])

\* The first reference to issue_id in a text follows a verb.
GrammarClose(text, issue_id) ==
  VerbBefore(text, CHOOSE p \in MarkerPositions(text, issue_id) :
                     \A q \in MarkerPositions(text, issue_id) : p <= q)

\* C13 as claimed: in a commit message a reference carries close intent if
\* and only if one of the verbs close, closes, closed or closing, followed
\* by whitespace, immediately precedes its marker; after any other word, or
\* after nothing, it carries none.
C13_Original ==
  delivered > 0 /\ PushDelivery =>
    \A c \in Range(PushCommitList) :
      \A i \in DOMAIN Push_handle_action(c, GetD(Payload, "ref", DefaultRef)) :
        Push_handle_action(c, GetD(Payload, "ref", DefaultRef))[i].close
          <=> GrammarClose(GetD(c, "message", << >>), i)

\* An authenticated pull_request or pull_request_review_comment delivery
\* that carries the number of its pull request: one that reaches
\* handle_action.
PullRequestDelivery ==
  /\ Authenticated
  /\ EventType[1] \in {"pull_request", "pull_request_review_comment"}
  /\ Decoded
  /\ "pull_request" \in DOMAIN Payload
  /\ "number" \in DOMAIN Payload.pull_request

\* C14: when one of the issue ids a pull request names does not exist,
\* handle_create and handle_update return without error and change
\* nothing: no link is created or updated, not even on the issues that
\* exist, and no issue is read.
C14_AllOrNothing ==
  /\ delivered > 0
  /\ PullRequestDelivery
  /\ ~(PullRequestRefs \subseteq DOMAIN db.issue)
  => /\ outcome = ""
     /\ Mutations = {}
     /\ OpNames \cap {"issue.get", "pull_request.getnode", "commit"} = {}

\* Pull request 7, linked to issue 1, edited to name the issues 1 and 9:
\* the link on issue 1 is left as it was.
C14_Witness ==
  /\ delivered > 0
  /\ PullRequestDelivery
  /\ Action = "edited"
  /\ PullRequestRefs = {<< 1 >>, << 9 >>}
  /\ LinksOn(<< 1 >>, PullRequestNumber) # {}
  /\ "issue.filter" \in OpNames
  /\ Mutations = {}

\* An authenticated pull_request delivery with action 'edited' or 'closed'
\* that names issues, all of which exist.
UpdatedPullRequest ==
  /\ PullRequestDelivery
  /\ EventType = Some("pull_request")
  /\ Action \in {"edited", "closed"}
  /\ PullRequestRefs # {}
  /\ PullRequestRefs \subseteq DOMAIN db.issue

PullRequestTitle == GetD(Payload.pull_request, "title", << >>)

\* 'merged' when the merged flag of the payload is true, its state
\* otherwise.
PullRequestStatus ==
  IF GetD(Payload.pull_request, "merged", FALSE) THEN "merged"
  ELSE GetD(Payload.pull_request, "state", "")

\* Every issue the pull request names has a link of its number, and each
\* such link carries the title and the status of the event.
LinksUpToDate ==
  \A i \in PullRequestRefs :
    /\ LinksOn(i, PullRequestNumber) # {}
    /\ \A k \in LinksOn(i, PullRequestNumber) :
         /\ db.pull_request[db.issue[i].pull_requests[k]].title
              = Some(PullRequestTitle)
         /\ db.pull_request[db.issue[i].pull_requests[k]].status
              = Some(PullRequestStatus)

\* C15 as claimed: after a pull_request 'edited' or 'closed' whose issues
\* all exist, every target issue has a link of that number with the title
\* and the status of the event, for every title, the empty one included.
C15_Original ==
  delivered > 0 /\ UpdatedPullRequest => LinksUpToDate

\* C15, amended: that holds for every title but the empty one; with an
\* empty title handle_update returns at once, and no link is created or
\* updated.
C15_UpdateOrCreate ==
  delivered > 0 /\ UpdatedPullRequest =>
    /\ outcome = ""
    /\ IF PullRequestTitle # << >> THEN LinksUpToDate
       ELSE Mutations = {} /\ "issue.filter" \notin OpNames

\* Pull request 7, linked to issue 1 while open, closed and merged: its
\* link is set to 'merged' in place.
C15_Witness ==
  /\ delivered > 0
  /\ UpdatedPullRequest
  /\ Action = "closed"
  /\ PullRequestTitle # << >>
  /\ PullRequestStatus = "merged"
  /\ "pull_request.set" \in OpNames
  /\ "pull_request.create" \notin OpNames
  /\ LinksUpToDate

\* C16 as claimed: a push that names an issue that does not exist still
\* succeeds; that id is skipped, every named issue that exists gets its
\* comment, and the batch is committed.
C16_Original ==
  delivered > 0 /\ PushDelivery /\ ~(PushRefs \subseteq DOMAIN db.issue) =>
    /\ outcome = ""
    /\ Calls("msg.create") = Cardinality(PushRefs \cap DOMAIN db.issue)
    /\ PushRefs \cap DOMAIN db.issue # {} => Calls("commit") = 1

\* The ids of the issues the last delivery created.
CreatedIssues ==
  {db.ops[k].id : k \in {j \in 1..Len(db.ops) : db.ops[j].op = "issue.create"}}

\* C17 as claimed: an opened pull request that names no issue, with issue
\* creation enabled, creates one bare issue and links the pull request to
\* that issue and to no other, whatever id the store gave it.
C17_Original ==
  /\ delivered > 0
  /\ OpenedPullRequest
  /\ PullRequestRefs = {}
  /\ create_issue(environ)
  => /\ Calls("issue.create") = 1
     /\ Calls("pull_request.create") = 1
     /\ \A k \in 1..Len(db.ops) :
          db.ops[k].op = "issue.set" => db.ops[k].id \in CreatedIssues
     /\ \A i \in CreatedIssues :
          Cardinality(LinksOn(i, PullRequestNumber)) = 1

\* The comment block of a commit of the push.
CommitBlock(commit) ==
  COMMENT_TEMPLATE_format(
    commit,
    GetD(Payload, "ref", DefaultRef)[Len(GetD(Payload, "ref", DefaultRef))],
    GetD(commit, "message", << >>))

\* The blocks with a newline between each two of them.
RECURSIVE NewlineJoin(_)
NewlineJoin(blocks) ==
  IF blocks = << >> THEN << >>
  ELSE IF Len(blocks) = 1 THEN << blocks[1] >>
  ELSE << blocks[1], NL >> \o NewlineJoin(Tail(blocks))

\* The commits of the push that reference the issue, in payload order.
CommitsOn(issue_id) ==
  SelectSeq(PushCommitList,
            LAMBDA c : issue_id \in {m.issue_id : m \in CommitRefs(c)})

\* The newline-join of the blocks of those commits.
ExpectedComment(issue_id) ==
  NewlineJoin([k \in 1..Len(CommitsOn(issue_id)) |->
                 CommitBlock(CommitsOn(issue_id)[k])])

\* The text of the last message of an issue.
LastComment(issue_id) ==
  db.msg[db.issue[issue_id].messages[Len(db.issue[issue_id].messages)]].content

\* C18 as claimed: the comment a push appends to an issue is the
\* newline-join of the blocks of the commits that reference the issue, in
\* payload order, one block per commit, with nothing before the first
\* block.
C18_Original ==
  delivered > 0 /\ PushDelivery /\ outcome = "" =>
    \A i \in PushRefs :
      /\ db.issue[i].messages # << >>
      /\ LastComment(i) = ExpectedComment(i)

\* The GitHub login of the actor of an authenticated delivery of a handled
\* event, as the handler of the event reads it off the payload.
Actor == get_github_username(handler_class(EventType[1]), Payload)

\* An authenticated delivery of a handled event whose payload names the
\* object the actor is read from.
ActorDelivery ==
  /\ Authenticated
  /\ EventType[1] \in HandledEvents
  /\ Decoded
  /\ Actor.exc = ""

\* The tracker users mapped to a GitHub login, by index.
MappedUsers(login) ==
  {i \in 1..Len(db.user) : db.user[i].github = Some(login)}

FallbackUsers == {i \in 1..Len(db.user) : db.user[i].username = "python-dev"}

\* The first of a non-empty set of indices.
First(S) == CHOOSE i \in S : \A j \in S : i <= j

\* The positions of the store calls of the last delivery that resolve the
\* actor, and of those that change the store.
ResolutionCalls ==
  {k \in 1..Len(db.ops) :
     db.ops[k].op \in {"user.filter", "user.get", "setCurrentUser"}}

MutationCalls == {k \in 1..Len(db.ops) : db.ops[k].op \in MutatingOps}

\* C19: in every handler the resolution of the actor is the first store
\* interaction and precedes every mutation; the identity becomes the user
\* mapped to the GitHub login if there is one, else 'python-dev' if that
\* user exists, else it is left as it was; and an opened pull request by an
\* unmapped actor is linked all the same.
C19_ActorResolvedFirst ==
  [][ActorDelivery' =>
       /\ db'.ops # << >>
       /\ db'.ops[1].op = "user.filter"
       /\ \A r \in ResolutionCalls', m \in MutationCalls' : r < m
       /\ db'.curuser =
            IF MappedUsers(Actor.val)' # {}
            THEN db.user[First(MappedUsers(Actor.val)')].username
            ELSE IF FallbackUsers' # {} THEN "python-dev"
            ELSE db.curuser
       /\ (/\ OpenedPullRequest'
           /\ PullRequestRefs' # {}
           /\ PullRequestRefs' \subseteq DOMAIN db.issue)
          => /\ outcome' = ""
             /\ \A i \in PullRequestRefs' :
                  (LinksOn(i, PullRequestNumber) # {})']_vars

\* A pull request opened by a GitHub user that no tracker user is mapped
\* to, on a tracker without 'python-dev': linked, with the identity left
\* as it was.
C19_Witness ==
  /\ delivered > 0
  /\ ActorDelivery
  /\ OpenedPullRequest
  /\ MappedUsers(Actor.val) = {}
  /\ FallbackUsers = {}
  /\ db.curuser = "anonymous"
  /\ "setCurrentUser" \notin OpNames
  /\ "pull_request.create" \in OpNames

\* Every worker is through with the delivery.
AllDone ==
  /\ workers # NoWorkers
  /\ \A w \in Workers : workers[w].pc = "done"

LinkNumbers ==
  {db.pull_request[l].number : l \in DOMAIN db.pull_request} \ {None}

\* No issue has two links of one pull-request number.
OneLinkPerNumber ==
  \A i \in DOMAIN db.issue, n \in LinkNumbers :
    Cardinality(LinksOn(i, n)) <= 1

\* The delivery runs handle_update: a pull_request or
\* pull_request_review_comment with action 'edited' or 'closed'.
UpdateDelivery ==
  PullRequestDelivery /\ Action \in {"edited", "closed"}

\* The step leaves every link as it was, but for the links of the number
\* of the event when the delivery runs handle_update.
OtherLinksUntouched ==
  \A l \in DOMAIN db.pull_request :
    /\ l \in DOMAIN db'.pull_request
    /\ \/ db'.pull_request[l] = db.pull_request[l]
       \/ /\ UpdateDelivery'
          /\ db.pull_request[l].number = PullRequestNumber'
          /\ db'.pull_request[l].number = db.pull_request[l].number

\* C21: over any sequence of pull_request, pull_request_review_comment and
\* issue_comment deliveries processed one after the other, starting from a
\* store without links, no issue ever has two links of one pull-request
\* number, and handle_update changes only links of the number of its
\* event: every other link keeps its title and its status.
C21_OneLinkPerNumber ==
  []OneLinkPerNumber /\ [][OtherLinksUntouched]_vars

\* Issue 1 has a link of pull request 7 and a link of pull request 8;
\* pull request 7 was just closed as merged, and the link of pull request
\* 8 is still open.
C21_Witness ==
  /\ delivered = MaxSequence
  /\ UpdateDelivery
  /\ PullRequestNumber = Some(Str(7))
  /\ "pull_request.set" \in OpNames
  /\ Cardinality(LinksOn(<< 1 >>, Some(Str(7)))) = 1
  /\ Cardinality(LinksOn(<< 1 >>, Some(Str(8)))) = 1
  /\ \A k \in LinksOn(<< 1 >>, Some(Str(7))) :
       db.pull_request[db.issue[<< 1 >>].pull_requests[k]].status
         = Some("merged")
  /\ \A k \in LinksOn(<< 1 >>, Some(Str(8))) :
       db.pull_request[db.issue[<< 1 >>].pull_requests[k]].status
         = Some("open")

\* The issue ids the delivery of worker w names.
WorkerRefs(w) ==
  IF workers[w].class = "Push"
  THEN DOMAIN push_messages(GetD(workers[w].doc, "commits", << >>),
                            GetD(workers[w].doc, "ref", DefaultRef), EmptyDict)
  ELSE Range(ISSUE_GH_RE_findall(
               GetD(workers[w].doc.pull_request, "title", << >>)))

\* The workers of pull requests and the workers of pushes.
PullWorkers == {w \in Workers : workers[w].class = "PullRequest"}

PushWorkers == {w \in Workers : workers[w].class = "Push"}

\* C22 as claimed: when the workers have processed their deliveries
\* concurrently, no update is lost: every issue has a link of each pull
\* request that names it, and its message list holds the comment of each
\* push that references it.
C22_Original ==
  AllDone =>
    \A i \in DOMAIN db.issue :
      /\ \A w \in PullWorkers :
           i \in WorkerRefs(w) =>
             LinksOn(i, Some(Str(workers[w].doc.pull_request.number))) # {}
      /\ \A w \in PushWorkers :
           i \in WorkerRefs(w) =>
             workers[w].newmsg \in Range(db.issue[i].messages)

\* An authenticated issue_comment delivery whose payload has its issue and
\* its comment, the issue carrying a pull-request url.
CommentWithUrl ==
  /\ Authenticated
  /\ EventType = Some("issue_comment")
  /\ Decoded
  /\ "issue" \in DOMAIN Payload
  /\ "comment" \in DOMAIN Payload
  /\ Get(GetD(Payload.issue, "pull_request", EmptyDict), "html_url") # None

\* The pull-request number in the url of the issue of the comment, None
\* when the url is not one of a pull request of the repository.
CommentNumber == URL_RE_search(Payload.issue.pull_request.html_url)

\* The external pull-request number of the last delivery.
EventNumber ==
  IF PullRequestDelivery THEN PullRequestNumber
  ELSE IF CommentWithUrl THEN CommentNumber
  ELSE None

\* The links the last delivery created.
CreatedLinks ==
  {db.ops[k].id :
     k \in {j \in 1..Len(db.ops) : db.ops[j].op = "pull_request.create"}}

\* C23 as claimed: every link record has a pull-request number, that of
\* the event that created it; an issue_comment whose url names no pull
\* request of the repository creates no link.
C23_Original ==
  /\ \A l \in DOMAIN db.pull_request : db.pull_request[l].number # None
  /\ \A l \in CreatedLinks : db.pull_request[l].number = EventNumber
  /\ delivered > 0 /\ CommentWithUrl /\ CommentNumber = None
       => CreatedLinks = {}

====
